---- MODULE Spec2Model ----
(***************************************************************************)
(* One run of the `ssl` command line tool (src/src/main.rs): main          *)
(* dispatches one of inspect / sans / validity / compare; every command    *)
(* runs inspect (input_type, then openssl s_client for a domain, then      *)
(* openssl x509) once per operand.                                         *)
(*                                                                         *)
(* Representation.                                                         *)
(*   - an input string is a sequence of characters over Chars;             *)
(*   - a byte stream (standard input, a file, what s_client prints) is a   *)
(*     sequence of bytes over {10, 49, 50, 255}: 10 is a newline, 49 and   *)
(*     50 stand for the PEM block of certificate 1 and of certificate 2,   *)
(*     255 is a byte that occurs in no UTF-8 encoding;                     *)
(*   - the text openssl x509 prints is a sequence of lines, each line      *)
(*     newline-terminated in the real text;                                *)
(*   - standard output and standard error are the sequences of writes      *)
(*     (one per println! / eprintln!) made so far.                         *)
(* openssl itself is not part of the repository: its two uses are the      *)
(* operators s_client and x509 below.                                      *)
(***************************************************************************)
EXTENDS Integers, Sequences, FiniteSets, TLC

\* Longest input string and longest standard input that are enumerated.
MaxLen == 2
MaxStdin == 2

Chars == {"a", ".", "/"}
StdinBytes == {10, 49, 255}
FileContents == {<<49>>, <<50, 10>>, <<10>>}
Commands == {"inspect", "sans", "validity", "compare"}
\* What the TLS peer of a fetch does: present certificate 1 or 2, refuse the
\* connection, or accept it and never send another byte ("silent").
PeerBehaviours == {"cert1", "cert2", "refuse", "silent"}

SeqsUpTo(S, n) == UNION {[1..k -> S] : k \in 0..n}

Contains(s, c) == \E i \in 1..Len(s) : s[i] = c

---------------------------------------------------------------------------
\* The file system, as far as Path::exists and fs::metadata observe it.

LastSlash(s) ==
  IF Contains(s, "/")
    THEN CHOOSE i \in 1..Len(s) : s[i] = "/" /\ \A j \in (i+1)..Len(s) : s[j] # "/"
    ELSE 0

FinalComponent(s) == SubSeq(s, LastSlash(s) + 1, Len(s))

DotName(c) == c \in {<<>>, <<".">>, <<".", ".">>}

\* Every component of s is empty, "." or "..": s names the current
\* directory, the root or an ancestor, which always exist.
OnlyDotComponents(s) ==
  /\ s # <<>>
  /\ ~Contains(s, "a")
  /\ \A i \in 1..(Len(s) - 2) : ~(s[i] = "." /\ s[i+1] = "." /\ s[i+2] = ".")

NoEntry == [kind |-> "none", content |-> <<>>]
DirEntry == [kind |-> "dir", content |-> <<>>]
FileEntries == {[kind |-> "file", content |-> c] : c \in FileContents}

\* The directory entries a path can name.
FsEntries(s) ==
  IF s = <<>> THEN {NoEntry}
  ELSE IF OnlyDotComponents(s) THEN {DirEntry}
  ELSE IF DotName(FinalComponent(s)) THEN {NoEntry, DirEntry}
  ELSE {NoEntry, DirEntry} \cup FileEntries

---------------------------------------------------------------------------
VARIABLES
  command,     \* cli.command
  input,       \* input[k]: the k-th operand (domain / domain1, domain2)
  fs,          \* the file system entry each operand names
  stdin0,      \* standard input as the process was started with it
  stdin,       \* the bytes of standard input not consumed yet
  stdout,      \* writes to standard output so far
  stderr,      \* writes to standard error so far
  pc,          \* position of the process
  cur,         \* which operand's inspect call is running
  openssl,     \* whether an openssl program can be spawned
  peer,        \* behaviour of the TLS peer of the running fetch
  resolved,    \* resolved[k]: what input_type returned for operand k
  fetched,     \* fetched[k]: what fetch_certificate_from_domain returned
  decodeIn,    \* decodeIn[k]: what the x509 command of operand k was given
  decoded,     \* decoded[k]: what the x509 execute_command returned
  result,      \* result[k]: what inspect returned for operand k
  calls,       \* calls[k][stage]: how often a stage of operand k was started
  ret,         \* what the command function returned to main
  exitCode     \* the process exit code, -1 while it runs

vars == <<command, input, fs, openssl, stdin0, stdin, stdout, stderr, pc, cur, peer,
          resolved, fetched, decodeIn, decoded, result, calls, ret, exitCode>>

Stages == {"resolve", "fetch", "decode"}

---------------------------------------------------------------------------
\* Result values.  st is "none" before the call returned, then "ok" or "err".

NoType == [st |-> "none", msg |-> "", kind |-> "", name |-> <<>>, content |-> <<>>]
OkType(k, n, c) == [st |-> "ok", msg |-> "", kind |-> k, name |-> n, content |-> c]
ErrType(m) == [st |-> "err", msg |-> m, kind |-> "", name |-> <<>>, content |-> <<>>]

NoResult == [st |-> "none", msg |-> "", out |-> <<>>]
Ok(o) == [st |-> "ok", msg |-> "", out |-> o]
Err(m) == [st |-> "err", msg |-> m, out |-> <<>>]

\* One println! / eprintln!: a label, a number (the line count of sans) and
\* the text lines it carries.
W(label, n, body) == [label |-> label, n |-> n, body |-> body]

---------------------------------------------------------------------------
\* Conversions between bytes and strings.

\* str::from_utf8 succeeds: over the bytes used here, exactly when no 255 occurs.
ValidUtf8(bytes) == \A i \in 1..Len(bytes) : bytes[i] < 128

\* String::from_utf8_lossy followed by as_bytes: every invalid byte becomes
\* U+FFFD, encoded EF BF BD.
RECURSIVE from_utf8_lossy(_)
from_utf8_lossy(bytes) ==
  IF bytes = <<>> THEN <<>>
  ELSE (IF Head(bytes) < 128 THEN <<Head(bytes)>> ELSE <<239, 191, 189>>)
       \o from_utf8_lossy(Tail(bytes))

\* How a byte shows when a string is formatted with {}.
ShowByte(b) ==
  CASE b = 10 -> "\\n"
    [] b = 49 -> "-----BEGIN CERTIFICATE----- 1"
    [] b = 50 -> "-----BEGIN CERTIFICATE----- 2"
    [] OTHER -> "?"

Show(bytes) == [i \in 1..Len(bytes) |-> ShowByte(bytes[i])]

---------------------------------------------------------------------------
\* Certificate Source Resolver.

\* is_stdin_empty: reads one byte from the locked, buffered standard input;
\* the byte read stays consumed.
is_stdin_empty(buf) ==
  IF buf = <<>> THEN [empty |-> TRUE, rest |-> <<>>]
  ELSE [empty |-> FALSE, rest |-> Tail(buf)]

\* io::stdin().read_to_string: everything up to end of input, and an error
\* when that is not UTF-8.
read_to_string(buf) ==
  IF ValidUtf8(buf) THEN [ok |-> TRUE, content |-> buf, rest |-> <<>>]
  ELSE [ok |-> FALSE, content |-> <<>>, rest |-> <<>>]

\* Path::new(input).exists() && fs::metadata(input)?.is_file()
IsRegularFile(entry) == entry.kind # "none" /\ entry.kind = "file"

\* input.contains('.') && !input.contains('/')
DomainShaped(s) == Contains(s, ".") /\ ~Contains(s, "/")

\* input_type: the classification, and what is left of standard input.
input_type(s, entry, buf) ==
  IF IsRegularFile(entry) THEN [res |-> OkType("File", s, <<>>), rest |-> buf]
  ELSE IF DomainShaped(s) THEN [res |-> OkType("Domain", s, <<>>), rest |-> buf]
  ELSE LET probe == is_stdin_empty(buf) IN
    IF ~probe.empty
      THEN LET rd == read_to_string(probe.rest) IN
        IF rd.ok THEN [res |-> OkType("Stdin", <<>>, rd.content), rest |-> rd.rest]
        ELSE [res |-> ErrType("stream did not contain valid UTF-8"), rest |-> rd.rest]
      ELSE [res |-> ErrType("Input does not match any expected type"),
            rest |-> probe.rest]

---------------------------------------------------------------------------
\* The two openssl commands: what the child process does.

\* The certificate of the first PEM block of a text, 0 when there is none.
CertOf(data) ==
  IF \E i \in 1..Len(data) : data[i] \in {49, 50}
    THEN LET i == CHOOSE j \in 1..Len(data) :
                    /\ data[j] \in {49, 50}
                    /\ \A l \in 1..(j-1) : data[l] \notin {49, 50}
         IN data[i] - 48
    ELSE 0

SubjectAltNames(c) ==
  IF c = 1 THEN <<"DNS:example.com", "DNS:www.example.com">> ELSE <<>>

TextDump(c) ==
  IF c = 1
    THEN <<"Certificate:", "Not Before: T1", "Not After : T2",
           "X509v3 Subject Alternative Name:",
           "DNS:example.com, DNS:www.example.com">>
    ELSE <<"Certificate:", "Not Before: T3", "Not After : T4">>

\* openssl s_client -connect domain:443 -servername domain, standard input at
\* end of file: the session text with the peer's certificate, or a failure.
\* With a silent peer the child never exits.
s_client(behaviour) ==
  CASE behaviour = "cert1" ->
         [spawned |-> TRUE, success |-> TRUE, out |-> <<10, 49, 10>>,
          err |-> <<"verify return:1">>]
    [] behaviour = "cert2" ->
         [spawned |-> TRUE, success |-> TRUE, out |-> <<10, 50, 10>>,
          err |-> <<"verify return:1">>]
    [] OTHER ->
         [spawned |-> TRUE, success |-> FALSE, out |-> <<>>,
          err |-> <<"connect:errno=111">>]

\* openssl x509 -noout -text on a PEM text.
x509(data) ==
  IF CertOf(data) # 0
    THEN [spawned |-> TRUE, success |-> TRUE, out |-> TextDump(CertOf(data)),
          err |-> <<>>]
    ELSE [spawned |-> TRUE, success |-> FALSE, out |-> <<>>,
          err |-> <<"unable to load certificate">>]

\* cmd.spawn() / cmd.output() found no program to run.
NotSpawned == [spawned |-> FALSE, success |-> FALSE, out |-> <<>>, err |-> <<>>]

---------------------------------------------------------------------------
\* execute_command: the value returned and the lines printed before the
\* child is spawned and after it exited.  shown is the child's standard
\* output as {} formats it.

execute_command_result(child, value) ==
  IF ~child.spawned THEN Err("No such file or directory")
  ELSE IF ~child.success THEN Err("Command execution failed")
  ELSE IF child.out = <<>> /\ child.err = <<>> THEN Err("Both stdout and stderr are empty")
  ELSE Ok(value)

execute_command_start(hasInput) ==
  <<W("execute_command: cmd", 0, <<>>)>>
  \o (IF hasInput THEN <<>> ELSE <<W("execute_command: no input_data", 0, <<>>)>>)

execute_command_end(child, shown) ==
  IF child.spawned /\ child.success /\ ~(child.out = <<>> /\ child.err = <<>>)
    THEN <<W("execute_command: stdout", 0, shown),
           W("execute_command: stderr", 0, child.err)>>
    ELSE <<>>

---------------------------------------------------------------------------
\* Control flow of inspect and of the command functions.

\* inspect, after input_type returned: `?` returns the error, a Domain is
\* fetched first, File and Stdin go to the x509 command.
AfterResolve(res) ==
  IF res.st # "ok" THEN "return"
  ELSE IF res.kind = "Domain" THEN "fetch"
  ELSE "decode"

\* A fetch whose error is not propagated: the x509 command runs on whatever
\* the failed fetch left.
AfterFetchIgnoringError(res) == "decode"

\* inspect, after fetch_certificate_from_domain returned: `?` returns the error.
AfterFetch(res) == IF res.st = "ok" THEN "decode" ELSE "return"

\* Where control goes when the inspect call of operand k returns res: main
\* called inspect itself, or sans / validity / compare apply `?` to it.
AfterInspect(cmd, k, res) ==
  IF cmd = "inspect" THEN "main"
  ELSE IF res.st # "ok" THEN "main"
  ELSE IF cmd = "sans" THEN "sans"
  ELSE IF cmd = "validity" THEN "validity"
  ELSE IF k = 1 THEN "input_type"
  ELSE "compare"

\* The text the x509 command decodes, and whether execute_command pipes it in.
DecodeInput(res, fetchRes, entry) ==
  IF res.kind = "Domain" THEN fetchRes.out
  ELSE IF res.kind = "File" THEN entry.content
  ELSE res.content

HasInput(res) == res.kind # "File"

\* inspect_output.split('\n'): the text ends with a newline, so an empty piece
\* follows the last line; an empty text is one empty piece.
SplitLines(text) == Append(text, "")

\* The inspect call of operand cur returns r.
InspectReturns(r) ==
  LET nxt == AfterInspect(command, cur, r) IN
    /\ result' = [result EXCEPT ![cur] = r]
    /\ pc' = nxt
    /\ cur' = IF nxt = "input_type" THEN 2 ELSE cur
    /\ ret' = IF nxt = "main" THEN r ELSE ret

Called(stage) == calls' = [calls EXCEPT ![cur][stage] = @ + 1]

---------------------------------------------------------------------------
Init ==
  /\ command \in Commands
  /\ input \in [1..2 -> SeqsUpTo(Chars, MaxLen)]
  /\ command # "compare" => input[2] = <<>>
  /\ fs \in [1..2 -> {NoEntry, DirEntry} \cup FileEntries]
  /\ \A k \in 1..2 : fs[k] \in FsEntries(input[k])
  /\ input[1] = input[2] => fs[1] = fs[2]
  /\ openssl \in BOOLEAN
  /\ stdin0 \in SeqsUpTo(StdinBytes, MaxStdin)
  /\ stdin = stdin0
  /\ stdout = <<>>
  /\ stderr = <<>>
  /\ pc = "input_type"
  /\ cur = 1
  /\ peer = "none"
  /\ resolved = [k \in 1..2 |-> NoType]
  /\ fetched = [k \in 1..2 |-> NoResult]
  /\ decodeIn = [k \in 1..2 |-> <<>>]
  /\ decoded = [k \in 1..2 |-> NoResult]
  /\ result = [k \in 1..2 |-> NoResult]
  /\ calls = [k \in 1..2 |-> [s \in Stages |-> 0]]
  /\ ret = NoResult
  /\ exitCode = -1

\* inspect: input_type(input)?
InputType ==
  /\ pc = "input_type"
  /\ LET r == input_type(input[cur], fs[cur], stdin)
         nxt == AfterResolve(r.res)
     IN /\ resolved' = [resolved EXCEPT ![cur] = r.res]
        /\ stdin' = r.rest
        /\ Called("resolve")
        /\ IF nxt = "return"
             THEN InspectReturns(Err(r.res.msg))
             ELSE pc' = nxt /\ UNCHANGED <<result, cur, ret>>
  /\ UNCHANGED <<command, input, fs, openssl, stdin0, stdout, stderr, peer, fetched,
                 decodeIn, decoded, exitCode>>

\* fetch_certificate_from_domain: execute_command spawns openssl s_client
\* and waits for it in cmd.output().
FetchSpawn ==
  /\ pc = "fetch"
  /\ stdout' = stdout \o execute_command_start(FALSE)
  /\ Called("fetch")
  /\ IF openssl
       THEN /\ \E b \in PeerBehaviours : peer' = b
            /\ pc' = "fetch_wait"
            /\ UNCHANGED <<fetched, result, cur, ret>>
       ELSE LET r == execute_command_result(NotSpawned, <<>>)
                nxt == AfterFetch(r)
            IN /\ fetched' = [fetched EXCEPT ![cur] = r]
               /\ IF nxt = "return"
                    THEN InspectReturns(r)
                    ELSE pc' = nxt /\ UNCHANGED <<result, cur, ret>>
               /\ UNCHANGED peer
  /\ UNCHANGED <<command, input, fs, openssl, stdin0, stdin, stderr, resolved,
                 decodeIn, decoded, exitCode>>

\* The s_client child exits; execute_command returns into inspect.
FetchReturn ==
  /\ pc = "fetch_wait"
  /\ peer # "silent"
  /\ LET child == s_client(peer)
         text == from_utf8_lossy(child.out)
         r == execute_command_result(child, text)
         nxt == AfterFetch(r)
     IN /\ stdout' = stdout \o execute_command_end(child, Show(text))
        /\ fetched' = [fetched EXCEPT ![cur] = r]
        /\ IF nxt = "return"
             THEN InspectReturns(r)
             ELSE pc' = nxt /\ UNCHANGED <<result, cur, ret>>
  /\ UNCHANGED <<command, input, fs, openssl, stdin0, stdin, stderr, peer, resolved,
                 decodeIn, decoded, calls, exitCode>>

\* The x509 command of inspect, the println! of its result and the return.
Decode ==
  /\ pc = "decode"
  /\ LET data == DecodeInput(resolved[cur], fetched[cur], fs[cur])
         child == IF openssl THEN x509(data) ELSE NotSpawned
         r == execute_command_result(child, child.out)
     IN /\ decodeIn' = [decodeIn EXCEPT ![cur] = data]
        /\ decoded' = [decoded EXCEPT ![cur] = r]
        /\ stdout' = stdout \o execute_command_start(HasInput(resolved[cur]))
                            \o execute_command_end(child, child.out)
                            \o <<W("inspect: result", 0, r.out)>>
        /\ Called("decode")
        /\ InspectReturns(r)
  /\ UNCHANGED <<command, input, fs, openssl, stdin0, stdin, stderr, peer, resolved,
                 fetched, exitCode>>

\* sans, after inspect returned Ok.
Sans ==
  /\ pc = "sans"
  /\ LET inspect_output == result[cur].out
         lines == SplitLines(inspect_output)
     IN /\ stdout' = stdout \o <<W("Full output from inspect:", 0, inspect_output)>>
                            \o [i \in 1..Len(lines) |-> W("", i, <<lines[i]>>)]
        /\ ret' = Ok(inspect_output)
  /\ pc' = "main"
  /\ UNCHANGED <<command, input, fs, openssl, stdin0, stdin, stderr, cur, peer, resolved,
                 fetched, decodeIn, decoded, result, calls, exitCode>>

\* todo!(): the thread panics and the process exits with code 101.
Panics ==
  /\ stderr' = Append(stderr, W("thread 'main' panicked", 0, <<"not yet implemented">>))
  /\ exitCode' = 101
  /\ pc' = "exited"
  /\ UNCHANGED <<command, input, fs, openssl, stdin0, stdin, stdout, cur, peer, resolved,
                 fetched, decodeIn, decoded, result, calls, ret>>

\* validity, after inspect returned Ok.
Validity == pc = "validity" /\ Panics

\* compare, after both inspect calls returned Ok.
Compare == pc = "compare" /\ Panics

\* main: the match on what the command returned; main then returns.
Main ==
  /\ pc = "main"
  /\ IF ret.st = "ok"
       THEN stdout' = Append(stdout, W("", 0, ret.out)) /\ UNCHANGED stderr
       ELSE stderr' = Append(stderr, W("Error", 0, <<ret.msg>>)) /\ UNCHANGED stdout
  /\ exitCode' = 0
  /\ pc' = "exited"
  /\ UNCHANGED <<command, input, fs, openssl, stdin0, stdin, cur, peer, resolved,
                 fetched, decodeIn, decoded, result, calls, ret>>

Next ==
  \/ InputType
  \/ FetchSpawn
  \/ FetchReturn
  \/ Decode
  \/ Sans
  \/ Validity
  \/ Compare
  \/ Main

Spec == Init /\ [][Next]_vars

\* The process keeps running while it has a step to take.
LiveSpec == Init /\ [][Next]_vars /\ WF_vars(Next)

---------------------------------------------------------------------------
\* Properties.

Exited == pc = "exited"

\* A Resolver, Fetcher or Decoder stage of some operand returned an error.
StageFailed ==
  \E k \in 1..2 : \/ resolved[k].st = "err"
                   \/ fetched[k].st = "err"
                   \/ decoded[k].st = "err"

\* C1: a run in which a resolve, fetch or decode stage failed ends with a
\* non-zero exit code; exit code 0 only when every stage succeeded.
C1_FailureExitsNonZero ==
  /\ (Exited /\ StageFailed) => exitCode # 0
  /\ exitCode = 0 => ~StageFailed

\* C2: in a run that fails in a stage nothing is ever written to standard
\* output.
C2_NoStdoutOnFailure == StageFailed => stdout = <<>>

\* C3: input_type classifies by first match: File for an existing regular
\* file, else Domain for a string with a '.' and no '/', else Stdin when
\* standard input has bytes, else the unresolvable-input error.
C3_Classification ==
  resolved[1].st # "none" =>
    LET want == IF fs[1].kind = "file" THEN "File"
                ELSE IF Contains(input[1], ".") /\ ~Contains(input[1], "/") THEN "Domain"
                ELSE IF stdin0 # <<>> THEN "Stdin"
                ELSE "UnresolvableInput"
    IN IF want = "UnresolvableInput"
         THEN /\ resolved[1].st = "err"
              /\ resolved[1].msg = "Input does not match any expected type"
         ELSE resolved[1].st = "ok" /\ resolved[1].kind = want

\* C4: an input classified Stdin carries every byte standard input held,
\* first to last.
C4_StdinCapturedWhole ==
  (resolved[1].st = "ok" /\ resolved[1].kind = "Stdin") => resolved[1].content = stdin0

\* C5: compare on two operands that both decode completes with a result and
\* does not abort.
C5_CompareCompletes ==
  (Exited /\ command = "compare" /\ result[1].st = "ok" /\ result[2].st = "ok")
    => (exitCode = 0 /\ ret.st = "ok")

\* C6: sans on a decoded certificate writes exactly the numbered SAN entries,
\* one per line, and succeeds; nothing for a certificate without SANs.
C6_SansPrintsExactlySans ==
  (Exited /\ command = "sans" /\ result[1].st = "ok") =>
    LET names == SubjectAltNames(CertOf(decodeIn[1])) IN
      /\ stdout = [i \in 1..Len(names) |-> W("", i, <<names[i]>>)]
      /\ exitCode = 0

\* C7: validity, once its input is acquired and decoded, completes normally.
C7_ValidityCompletes ==
  (Exited /\ command = "validity" /\ result[1].st = "ok")
    => (exitCode = 0 /\ ret.st = "ok")

\* C8: every fetch that was started returns to its caller, whatever the peer
\* does.
C8_FetchReturns == (pc = "fetch_wait") ~> (pc # "fetch_wait")

\* C9: what the pipeline of the second operand of compare resolves to is what
\* it resolves to when run alone on the environment the process started with.
C9_SecondPipelineIndependent ==
  (command = "compare" /\ resolved[2].st # "none")
    => resolved[2] = input_type(input[2], fs[2], stdin0).res

\* C10: each inspect call is a fail-fast chain resolve -> acquire -> decode:
\* every stage starts at most once and only after the earlier stages
\* returned Ok, the x509 command of a Domain gets exactly what the fetch
\* returned, and inspect returns the first stage error.
C10_FailFastChain ==
  \A k \in 1..2 :
    /\ \A s \in Stages : calls[k][s] <= 1
    /\ calls[k]["fetch"] = 1 =>
         (resolved[k].st = "ok" /\ resolved[k].kind = "Domain")
    /\ calls[k]["decode"] = 1 =>
         /\ resolved[k].st = "ok"
         /\ resolved[k].kind = "Domain" =>
              (fetched[k].st = "ok" /\ decodeIn[k] = fetched[k].out)
    /\ fetched[k].st = "err" => calls[k]["decode"] = 0
    /\ result[k].st # "none" =>
         IF resolved[k].st = "err"
           THEN result[k].st = "err" /\ result[k].msg = resolved[k].msg
         ELSE IF fetched[k].st = "err"
           THEN result[k].st = "err" /\ result[k].msg = fetched[k].msg
         ELSE /\ calls[k]["decode"] = 1
              /\ result[k].st = decoded[k].st
              /\ result[k].msg = decoded[k].msg
              /\ result[k].st = "ok" => result[k].out = decoded[k].out

\* compare ran both chains: the first, a Domain, through fetch and decode; the
\* second, a Domain too, stopped at its failed fetch.
C10_Witness ==
  /\ Exited /\ command = "compare"
  /\ resolved[1].kind = "Domain" /\ decoded[1].st = "ok"
  /\ resolved[2].kind = "Domain" /\ fetched[2].st = "err"
  /\ calls[2]["decode"] = 0 /\ result[2].st = "err"

====
